---- MODULE Spec2Model ----
(***************************************************************************)
(* A model of the country REST service of src/app.py: one SQLite table of  *)
(* Country rows behind the flask-restx handlers Countries (list, create),  *)
(* CountryWithMaxValue, CountryWithMinValue, CountryAverageValue and       *)
(* CountryResource (get, put, delete).                                     *)
(*                                                                         *)
(* Every request is one step: the handler runs to its response, and the    *)
(* session commit (or the rollback that the request teardown performs     *)
(* after a failed commit) is part of that step.                            *)
(*                                                                         *)
(* Values are tagged so that JSON null, integers, text and SQLite reals    *)
(* can be told apart and compared.  Request bodies are JSON objects whose  *)
(* members, where present and not null, have the type of their column.     *)
(***************************************************************************)
EXTENDS Integers, Sequences, FiniteSets, TLC

\* ids the create operation may assign in the CRUD specification
MaxId == 2

\* ids of the rows the persisted table holds in the query specification
MaxStoredId == 3

----------------------------------------------------------------------------
\* Values

Null == [t |-> "null"]
IntV(n) == [t |-> "int", v |-> n]
StrV(s) == [t |-> "str", v |-> s]
\* a floating point result, kept exactly as the quotient num / den
RealV(n, d) == [t |-> "real", num |-> n, den |-> d]

----------------------------------------------------------------------------
\* class Country: the columns and their types

StringColumns == {"country_name", "capital_of_the_country", "living_standard"}
IntegerColumns == {"country_area", "population_of_the_country", "phone_code"}
NonIdColumns == StringColumns \cup IntegerColumns
Columns == {"id"} \cup NonIdColumns

\* Country.__repr__ is an attribute of the class that is not a column
NonColumnAttributes == {"__repr__"}

\* hasattr(Country, name)
hasattr(name) == name \in Columns \cup NonColumnAttributes

\* nullable=False on the six columns, and the primary key: the NOT NULL
\* constraints the INSERT or UPDATE of a row must satisfy
NotNullMut(row) == TRUE
NotNull(row) == \A c \in Columns : row[c] # Null

\* dict.get of the request body: None for a key that is absent
DataGet(data, key) == IF key \in DOMAIN data THEN data[key] ELSE Null

\* Country(country_name=..., ...) and the six assignments of put: every
\* non-id column is set from the body, the id is not
CountryRow(id, data) ==
    [c \in Columns |-> IF c = "id" THEN IntV(id) ELSE DataGet(data, c)]

\* id = Column(Integer, primary_key=True) on SQLite is an alias of the rowid
\* (no AUTOINCREMENT): an INSERT without id takes the largest rowid in the
\* table plus one, and 1 in an empty table
Ids(tbl) == {r.id.v : r \in tbl}
MaxOf(S) == CHOOSE m \in S : \A n \in S : n <= m
NextRowid(tbl) == IF tbl = {} THEN 1 ELSE MaxOf(Ids(tbl)) + 1

\* Country.query.get_or_404(id): the row of that primary key, Null for abort(404)
get_or_404Mut(tbl, id) ==
    IF tbl = {} THEN Null
    ELSE CHOOSE r \in tbl : \A q \in tbl : r.id.v <= q.id.v
get_or_404(tbl, id) ==
    IF id \in Ids(tbl) THEN CHOOSE r \in tbl : r.id.v = id ELSE Null

----------------------------------------------------------------------------
\* country_model: marshalling of a row to the response body

\* fields.Integer.format: None stays None, anything else goes through int()
\* fields.String.format: None stays None, anything else goes through str()
MarshalField(kind, value) ==
    IF value = Null THEN Null
    ELSE IF kind = "Integer" THEN IntV(value.v)
    ELSE IF value.t = "str" THEN StrV(value.v)
    ELSE StrV(ToString(value.v))

FieldKind(c) == IF c \in StringColumns THEN "String" ELSE "Integer"

\* marshal(obj, country_model); a missing object marshals as all-null
\* because every field is read with getattr(obj, key, None)
Marshal(obj) ==
    [c \in Columns |->
        IF obj = Null THEN Null ELSE MarshalField(FieldKind(c), obj[c])]

Response(status, envelope, body) ==
    [status |-> status, envelope |-> envelope, body |-> body]

\* abort(404), and the 500 of an exception the handler does not catch
NotFound == Response(404, "", Null)
InternalServerError == Response(500, "", Null)

----------------------------------------------------------------------------
\* Request bodies

Wakanda ==
    [country_name |-> StrV("Wakanda"), capital_of_the_country |-> StrV("Birnin"),
     living_standard |-> StrV("High"), country_area |-> IntV(100000),
     population_of_the_country |-> IntV(6000000), phone_code |-> IntV(999)]

Asgard ==
    [country_name |-> StrV("Asgard"), capital_of_the_country |-> StrV("Asgard"),
     living_standard |-> StrV("7"), country_area |-> IntV(100000),
     population_of_the_country |-> IntV(500), phone_code |-> IntV(1)]

\* a body that also carries an id
AsgardWithId ==
    [id |-> IntV(2),
     country_name |-> StrV("Asgard"), capital_of_the_country |-> StrV("Asgard"),
     living_standard |-> StrV("7"), country_area |-> IntV(100000),
     population_of_the_country |-> IntV(500), phone_code |-> IntV(1)]

\* partial bodies: one member only, and one member null
OnlyName == [country_name |-> StrV("Genosha")]
NullPhone ==
    [country_name |-> StrV("Genosha"), capital_of_the_country |-> StrV("Birnin"),
     living_standard |-> StrV("High"), country_area |-> IntV(100000),
     population_of_the_country |-> IntV(500), phone_code |-> Null]

Bodies == {Wakanda, Asgard, AsgardWithId, OnlyName, NullPhone}

----------------------------------------------------------------------------
VARIABLES
    table,      \* the rows of the country table
    req,        \* the last request
    resp,       \* the response to it
    deleted,    \* history: the ids a DELETE has removed with 200
    created     \* history: id -> the body the create returned for the row
                \* stored under it, Null once that row was updated or deleted

vars == <<table, req, resp, deleted, created>>
hist == <<deleted, created>>

NoRequest == [op |-> "none"]

Init ==
    /\ table = {}
    /\ req = NoRequest
    /\ resp = Response(0, "", Null)
    /\ deleted = {}
    /\ created = [i \in 1..MaxId |-> Null]

\* Countries.post
Post ==
    \E data \in Bodies :
        LET new_country == CountryRow(NextRowid(table), data)
        IN  /\ req' = [op |-> "post", data |-> data]
            /\ IF NotNull(new_country)
               THEN /\ NextRowid(table) <= MaxId
                    /\ table' = table \cup {new_country}
                    /\ resp' = Response(201, "country", Marshal(new_country))
                    /\ created' = [created EXCEPT ![new_country.id.v] =
                                        Marshal(new_country)]
               ELSE \* IntegrityError at commit; the teardown rolls back
                    /\ table' = table
                    /\ resp' = InternalServerError
                    /\ created' = created
            /\ UNCHANGED deleted

\* CountryResource.get: the response to GET /api/country/<id> on a table
CountryResourceGet(tbl, id) ==
    LET country == get_or_404(tbl, id)
    IN  IF country = Null THEN NotFound
        ELSE Response(200, "country", Marshal(country))

Get ==
    \E id \in 1..(MaxId + 1) :
        /\ req' = [op |-> "get", id |-> id]
        /\ resp' = CountryResourceGet(table, id)
        /\ UNCHANGED <<table, hist>>

\* CountryResource.put
Put ==
    \E id \in 1..(MaxId + 1), data \in Bodies :
        LET country_to_update == get_or_404(table, id)
            updated == CountryRow(id, data)
        IN  /\ req' = [op |-> "put", id |-> id, data |-> data]
            /\ IF country_to_update = Null
               THEN /\ resp' = NotFound
                    /\ UNCHANGED <<table, hist>>
               ELSE IF NotNull(updated)
               THEN /\ table' = (table \ {country_to_update}) \cup {updated}
                    /\ resp' = Response(200, "country", Marshal(updated))
                    /\ created' = [created EXCEPT ![id] = Null]
                    /\ UNCHANGED deleted
               ELSE \* IntegrityError at commit; the teardown rolls back
                    /\ resp' = InternalServerError
                    /\ UNCHANGED <<table, hist>>

\* CountryResource.delete
Delete ==
    \E id \in 1..(MaxId + 1) :
        LET country_to_delete == get_or_404(table, id)
        IN  /\ req' = [op |-> "delete", id |-> id]
            /\ IF country_to_delete = Null
               THEN /\ resp' = NotFound
                    /\ UNCHANGED <<table, hist>>
               ELSE /\ table' = table \ {country_to_delete}
                    /\ resp' = Response(200, "country_deleted",
                                        Marshal(country_to_delete))
                    /\ deleted' = deleted \cup {id}
                    /\ created' = [created EXCEPT ![id] = Null]

Next == Post \/ Get \/ Put \/ Delete

Spec == Init /\ [][Next]_vars

----------------------------------------------------------------------------
\* The read-only queries: list, max_value, min_value, average_value

\* the texts of the model in the order of SQLite's BINARY collation (memcmp)
TextOrder == <<"7", "Asgard", "Birnin", "Genosha", "High", "Wakanda">>
TextRank(s) == CHOOSE i \in 1..Len(TextOrder) : TextOrder[i] = s

\* v <= w as ORDER BY compares two values of one column
LessEq(v, w) ==
    IF v.t = "int" THEN v.v <= w.v ELSE TextRank(v.v) <= TextRank(w.v)

\* sort_dirs.get(sort_order, sort_dirs["asc"])
sort_dir_funcMut(sort_order) ==
    IF sort_order \in {"desc", "DESC"} THEN "desc" ELSE "asc"
sort_dir_func(sort_order) == IF sort_order = "desc" THEN "desc" ELSE "asc"

\* Country.query.all() without ORDER BY: the rows in an order SQL leaves open
RECURSIVE AllRows(_)
AllRows(tbl) ==
    IF tbl = {} THEN {<<>>}
    ELSE UNION {{<<r>> \o s : s \in AllRows(tbl \ {r})} : r \in tbl}

\* query.order_by(asc(column)) / order_by(desc(column)): the orders of the
\* rows that ORDER BY allows; rows that tie may come in any order
order_by(tbl, column, dir) ==
    {s \in AllRows(tbl) :
        \A i \in 1..(Cardinality(tbl) - 1) :
            IF dir = "desc" THEN LessEq(s[i + 1][column], s[i][column])
                            ELSE LessEq(s[i][column], s[i + 1][column])}

\* marshal_list_with
MarshalList(rows) == [i \in 1..Len(rows) |-> Marshal(rows[i])]

\* query.order_by(...).first(): the first row of an allowed order, None when
\* there is no row
first(tbl, column, dir) ==
    IF tbl = {} THEN {Null}
    ELSE {s[1] : s \in order_by(tbl, column, dir)}

\* SQLite's avg() reads a value as a number: text that does not look like a
\* number counts as 0
SqliteNumeric(value) ==
    IF value.t = "int" THEN value.v
    ELSE IF \E n \in 0..9 : ToString(n) = value.v
         THEN CHOOSE n \in 0..9 : ToString(n) = value.v
         ELSE 0

RECURSIVE SumOf(_, _)
SumOf(tbl, column) ==
    IF tbl = {} THEN 0
    ELSE LET r == CHOOSE x \in tbl : TRUE
         IN  SqliteNumeric(r[column]) + SumOf(tbl \ {r}, column)

\* func.avg(column) over the table: NULL over no rows, else the real sum/count
avgMut(tbl, column) == RealV(SumOf(tbl, column), Cardinality(tbl) + 1)
avg(tbl, column) ==
    IF tbl = {} THEN Null
    ELSE RealV(SumOf(tbl, column), Cardinality(tbl))

\* the values of the query string and of the <string:field> path segment
SortArgs ==
    {Null} \cup {StrV(f) : f \in {"id", "country_name",
                                  "population_of_the_country",
                                  "__repr__", "not_a_real_field"}}
OrderArgs == {Null, StrV("asc"), StrV("desc"), StrV("DESC")}
FieldArgs ==
    {"id", "living_standard", "population_of_the_country",
     "__repr__", "not_a_real_field"}

\* Countries.get
List ==
    \E sort \in SortArgs, order \in OrderArgs :
        LET sort_by == sort
            sort_order == IF order = Null THEN "asc" ELSE order.v
            dir == sort_dir_func(sort_order)
        IN  /\ req' = [op |-> "list", sort |-> sort, order |-> order]
            /\ IF sort_by # Null /\ hasattr(sort_by.v)
               THEN IF sort_by.v \in Columns
                    THEN \E countries \in order_by(table, sort_by.v, dir) :
                            resp' = Response(200, "", MarshalList(countries))
                    ELSE \* asc()/desc() of a method: ArgumentError
                         resp' = InternalServerError
               ELSE \E countries \in AllRows(table) :
                        resp' = Response(200, "", MarshalList(countries))
            /\ UNCHANGED <<table, hist>>

\* CountryWithMaxValue.get and CountryWithMinValue.get
Extremum(op, dir) ==
    \E field \in FieldArgs :
        /\ req' = [op |-> op, field |-> field]
        /\ IF field \in Columns
           THEN \E country \in first(table, field, dir) :
                    resp' = Response(200, "", Marshal(country))
           ELSE \* getattr(Country, field), or .desc()/.asc() of a method:
                \* AttributeError
                resp' = InternalServerError
        /\ UNCHANGED <<table, hist>>

MaxValue == Extremum("max_value", "desc")
MinValue == Extremum("min_value", "asc")

\* CountryAverageValue.get
AverageValue ==
    \E field \in FieldArgs :
        /\ req' = [op |-> "average_value", field |-> field]
        /\ IF field \in Columns
           THEN resp' = Response(200, "",
                            [field |-> StrV(field),
                             average_value |-> avg(table, field)])
           ELSE \* getattr(Country, field) fails, or avg() of a method does
                resp' = InternalServerError
        /\ UNCHANGED <<table, hist>>

\* The table persists in countries.db: the service can start on any table
\* that creates, updates and deletes have left there
StoredBodies == {Wakanda, Asgard}
StoredTables ==
    UNION {{ {CountryRow(i, f[i]) : i \in S} : f \in [S -> StoredBodies] } :
                S \in SUBSET (1..MaxStoredId)}

InitStored ==
    /\ table \in StoredTables
    /\ req = NoRequest
    /\ resp = Response(0, "", Null)
    /\ deleted = {}
    /\ created = [i \in 1..MaxId |-> Null]

NextQuery == List \/ MaxValue \/ MinValue \/ AverageValue

SpecQuery == InitStored /\ [][NextQuery]_vars

----------------------------------------------------------------------------
\* Properties of create, get, update and delete (checked under Spec)

\* C1: a GET of an id whose row was created, and neither updated nor deleted
\* since, returns 200 and all seven fields exactly as the create returned them,
\* whatever was created, updated or deleted before and in between.
C1_CreateGetRoundTrip ==
    (req.op = "get" /\ req.id \in DOMAIN created /\ created[req.id] # Null)
        => (resp.status = 200 /\ resp.body = created[req.id])

\* a created row is read back while a second row is stored and after an
\* earlier row was deleted
C1_Witness ==
    /\ req.op = "get"
    /\ req.id \in DOMAIN created
    /\ created[req.id] # Null
    /\ resp.status = 200
    /\ Cardinality(table) = 2
    /\ deleted # {}

\* C2: once a DELETE of an id has answered 200, every later GET of that id
\* answers 404, whatever happens in between.
C2_DeletedStays404 ==
    (req.op = "get" /\ req.id \in deleted) => resp.status = 404

\* C3: no update changes the id of a stored row, and a create never assigns
\* an id that an earlier row had, the deleted rows included.
C3_IdImmutableNeverReused ==
    [][ /\ \A r \in table' :
              r.id.v \notin Ids(table) => r.id.v \notin deleted
        /\ req'.op = "put" => Ids(table') = Ids(table) ]_vars

C10_AbsentIdIs404 ==
    [][ (req'.op \in {"get", "put", "delete"} /\ req'.id \notin Ids(table))
        => (resp'.status = 404 /\ table' = table) ]_vars

\* a DELETE of an id that was deleted before is answered 404 while another
\* row is stored
C10_Witness ==
    /\ req.op = "delete"
    /\ req.id \in deleted
    /\ resp.status = 404
    /\ table # {}

----------------------------------------------------------------------------
\* Properties of the queries (checked under SpecQuery)

IsExtremum == req.op \in {"max_value", "min_value"}

\* the body lists every stored row exactly once
ListsEveryRow(body) ==
    /\ Len(body) = Cardinality(table)
    /\ {body[i] : i \in 1..Len(body)} = {Marshal(r) : r \in table}

\* C5: max, min and average on a field that is not a column answer 400 and
\* leave the table as it was.
C5_UnknownFieldIs400 ==
    [][ ( /\ req'.op \in {"max_value", "min_value", "average_value"}
          /\ req'.field \notin Columns )
        => (resp'.status = 400 /\ table' = table) ]_vars

\* C6: a list whose sort is omitted or names no column answers 200 with every
\* stored row; a non-column attribute of Country is never used as sort key.
C6_ListUnknownSortIsUnordered ==
    (req.op = "list" /\ (req.sort = Null \/ req.sort.v \notin Columns))
        => (resp.status = 200 /\ ListsEveryRow(resp.body))

\* C7: a list sorted by a column answers 200 with every stored row exactly
\* once, non-increasing in that column when order is exactly "desc" and
\* non-decreasing for every other order (omitted, "asc", or another text).
C7_ListSorted ==
    (req.op = "list" /\ req.sort # Null /\ req.sort.v \in Columns)
        => /\ resp.status = 200
           /\ ListsEveryRow(resp.body)
           /\ \A i \in 1..(Len(resp.body) - 1) :
                IF req.order = StrV("desc")
                THEN LessEq(resp.body[i + 1][req.sort.v],
                            resp.body[i][req.sort.v])
                ELSE LessEq(resp.body[i][req.sort.v],
                            resp.body[i + 1][req.sort.v])

\* three rows of differing population were listed with order=DESC, which is
\* not "desc"
C7_Witness ==
    /\ req.op = "list"
    /\ req.sort = StrV("population_of_the_country")
    /\ req.order = StrV("DESC")
    /\ resp.status = 200
    /\ Len(resp.body) = 3
    /\ resp.body[1].population_of_the_country
           # resp.body[3].population_of_the_country

\* C8: max and min on a column of an empty table answer 404.
C8_ExtremumOfEmptyIs404 ==
    (IsExtremum /\ req.field \in Columns /\ table = {})
        => resp.status = 404

\* the sum of a column over the stored rows, by id; a text counts as the
\* number SQLite reads it as when sqlite is TRUE
RECURSIVE SumUpTo(_, _, _)
SumUpTo(n, column, sqlite) ==
    IF n = 0 THEN 0
    ELSE (IF n \in Ids(table)
          THEN (IF sqlite THEN SqliteNumeric(get_or_404(table, n)[column])
                          ELSE get_or_404(table, n)[column].v)
          ELSE 0)
         + SumUpTo(n - 1, column, sqlite)

\* answers {field, average_value} with sum / count as average_value
IsQuotient(body, field, sum) ==
    /\ body.field = StrV(field)
    /\ body.average_value # Null
    /\ body.average_value.t = "real"
    /\ body.average_value.num * Cardinality(table)
           = sum * body.average_value.den

\* C9 as stated: average on a column answers 200 with {field, average_value},
\* average_value null on an empty table and else the arithmetic mean of the
\* values the stored rows have in that column.
C9_AverageIsMeanOfField ==
    (req.op = "average_value" /\ req.field \in Columns)
        => /\ resp.status = 200
           /\ IF table = {}
              THEN resp.body = [field |-> StrV(req.field),
                                average_value |-> Null]
              ELSE /\ \A r \in table : r[req.field].t = "int"
                   /\ IsQuotient(resp.body, req.field,
                                 SumUpTo(MaxOf(Ids(table)), req.field, FALSE))

\* C9 as amended: average_value is null on an empty table; else it is the
\* arithmetic mean of the column's values for an integer column, and for a
\* text column the mean of the numbers SQLite reads the texts as (0 for a
\* text that does not look like a number).
C9_AverageIsMeanOfReading ==
    (req.op = "average_value" /\ req.field \in Columns)
        => /\ resp.status = 200
           /\ IF table = {}
              THEN resp.body = [field |-> StrV(req.field),
                                average_value |-> Null]
              ELSE IF req.field \in StringColumns
              THEN IsQuotient(resp.body, req.field,
                              SumUpTo(MaxOf(Ids(table)), req.field, TRUE))
              ELSE IsQuotient(resp.body, req.field,
                              SumUpTo(MaxOf(Ids(table)), req.field, FALSE))

\* the average of a text column was taken over rows of which one holds "7"
C9_Witness ==
    /\ req.op = "average_value"
    /\ req.field = "living_standard"
    /\ Cardinality(table) = 3
    /\ resp.status = 200
    /\ resp.body.average_value = RealV(7, 3)

====
